---- MODULE Spec2Model ----
(***************************************************************************)
(* Model of the screening session of anugrahks19/sih:                      *)
(*   - the session orchestrator (Assessment page): onboarding, speech,     *)
(*     cognitive and results phases, submit/predict/poll sequence;         *)
(*   - the capture/upload pipeline (SpeechRecorder component);             *)
(*   - the session context (UserSessionProvider) and the history cache.    *)
(*                                                                         *)
(* Every asynchronous handler is cut at its await points: one action is    *)
(* the code that runs between two suspensions.  React state setters of     *)
(* one continuation are applied together with the re-render (mounting and  *)
(* teardown of child components, effects) that follows them.               *)
(*                                                                         *)
(* Specifications:                                                         *)
(*   SpecPipeline  the SpeechRecorder component alone, its onUpload and    *)
(*                 onComplete props being stubs (onUpload may reject);     *)
(*   SpecDevice    SpecPipeline with a startRecording that can throw once  *)
(*                 the device stream was acquired;                         *)
(*   SpecCog       the CognitiveTasks component alone, with its per-task   *)
(*                 state, for a task list drawn from a bounded family;     *)
(*   Spec          the composed session, onUpload = handleSpeechUpload,    *)
(*                 onComplete = handleSpeechComplete; of CognitiveTasks it *)
(*                 keeps the task pointer and the finished flag;           *)
(*   SpecScoring   handleFinish on a finished CognitiveTasks component     *)
(*                 whose task outcomes are drawn freely;                   *)
(*   SpecCatalog   the makers of the generated sequence tasks, on scaled   *)
(*                 inputs, for every outcome of their shuffles;            *)
(*   SpecFetch     fetchAssessmentResult on one response in flight;        *)
(*   SpecHistory   the history store, two users fetching results;          *)
(*   SpecGuard     the two upload handlers of the page invoked without a   *)
(*                 session (user or assessmentId missing).                 *)
(***************************************************************************)
EXTENDS Integers, Sequences, FiniteSets, TLC

\* ---------------------------------------------------------------- bounds
\* dataavailable events with a non-empty chunk, over a whole behaviour
MaxChunks == 3
\* assessments the external service starts, over a whole behaviour
MaxSessions == 2
\* user ids the external service hands out
MaxUsers == 1
\* cognitive tasks in the list handed to the CognitiveTasks component
MaxTasks == 2
\* options of a cognitive task
MaxOptions == 2
\* error count of a scored task
MaxErrors == 11
\* largest digit of the digit pool (0..MaxDigit)
MaxDigit == 3
\* words of the lexicon
MaxWords == 3
\* items to remember in a generated task
MaxTargets == 2
\* distractor digits sampled for a digit-span task
MaxSample == 1

\* ------------------------------------------------------ program constants
NumSpeechTasks == 3
UploadAttempts == 3
PollAttempts == 15
LastStep == 3
NumCognitiveTasks == 7

None == 0
StepOnboarding == 0
StepSpeech == 1
StepCognitive == 2
StepResults == 3

UserIds == 1..MaxUsers
AssessmentIds == 1..MaxSessions
SpeechTaskIdx == 0..(NumSpeechTasks - 1)

Min(a, b) == IF a < b THEN a ELSE b

VARIABLES
  user,               \* session context: user id, None when null
  assessmentId,       \* session context: assessment id, None when null
  activeStepIndex,    \* Assessment: phase pointer, 0..3
  isLoading,          \* Assessment
  isSpeechUploading,  \* Assessment
  result,             \* Assessment: assessment id of the fetched result, None when null
  isResultPending,    \* Assessment: the pending flag
  history,            \* Assessment: history state (array of stored results)
  storage,            \* localStorage: user id -> array of stored results
  speech,             \* SpeechRecorder component state
  rec,                \* the MediaRecorder of mediaRecorderRef and what its listeners captured
  hs,                 \* handleDataAvailable invocations, in order of their chunk events
  completions,        \* calls of the onComplete stub (SpecPipeline)
  cogc,               \* CognitiveTasks component: task pointer and finished flag
  onb,                \* the handleOnboardingSubmit invocation
  cog,                \* the handleCognitiveComplete invocation
  uploaded,           \* external service: accepted speech samples <<assessment, task>>
  nextAid             \* external service: next assessment id to issue

sessVars == <<user, assessmentId, activeStepIndex, isLoading, isSpeechUploading,
              result, isResultPending, history, storage>>
pipeVars == <<speech, rec, hs, completions>>
procVars == <<cogc, onb, cog>>
servVars == <<uploaded, nextAid>>
vars == <<sessVars, pipeVars, procVars, servVars>>

\* ------------------------------------------------- SpeechRecorder component
\* useState/useRef initial values (SpeechRecorder.tsx 41-47)
FreshSpeech ==
  [mounted |-> TRUE, currentIndex |-> 0, isRecording |-> FALSE, elapsedMs |-> 0,
   chunks |-> 0, timerOn |-> FALSE]

NotMountedSpeech == [FreshSpeech EXCEPT !.mounted = FALSE]

\* mediaRecorderRef before a recorder exists.  stream is the device stream the
\* recorder owns ("none", "live", or "released" once its tracks were stopped);
\* stray records a stream that getUserMedia handed out and no recorder owns.
NoRecorder ==
  [state |-> "none", idx |-> 0, aid |-> None, uid |-> None, stream |-> "none",
   stray |-> FALSE]

\* the tracks of the recorder's stream are stopped (SpeechRecorder.tsx 61, 136)
ReleaseStream(r) == IF r.stream = "live" THEN [r EXCEPT !.stream = "released"] ELSE r

\* One invocation of handleDataAvailable, as created for a non-empty chunk:
\* idx/aid/uid are what the listener's closure captured when the recording was
\* started, i is the loop counter, trace the calls, outcomes and delays so far.
NewHandler(r, orphan) ==
  [idx |-> r.idx, aid |-> r.aid, uid |-> r.uid, i |-> 0, pc |-> "upload",
   trace |-> <<"call">>, effect |-> "none", orphan |-> orphan,
   req |-> "none", toast |-> "none"]

\* n chunk events of recorder r, each starting an invocation
RECURSIVE AppendHandlers(_, _, _, _)
AppendHandlers(h, r, orphan, n) ==
  IF n = 0 THEN h ELSE AppendHandlers(Append(h, NewHandler(r, orphan)), r, orphan, n - 1)

\* stopTimer (SpeechRecorder.tsx 51-57)
stopTimer(sp) == [sp EXCEPT !.timerOn = FALSE]

\* the recorder's "stop" listener (SpeechRecorder.tsx 135-139)
OnRecorderStop(sp) == stopTimer([sp EXCEPT !.isRecording = FALSE])

\* faulty variants: the loop gives up one attempt early / makes one attempt more
UploadLoopContinues_Mut(i) == i < UploadAttempts - 1
UploadLoopContinues_Mut2(i) == i < UploadAttempts + 1

\* the loop condition of the retry loop (SpeechRecorder.tsx 76)
UploadLoopContinues(i) == i < UploadAttempts

\* the branch after a successful upload (SpeechRecorder.tsx 89)
HasNextSpeechTask(idx) == idx < NumSpeechTasks - 1

\* lines 87-91 on the component state; setters of an unmounted component are void
AfterUploadSpeech(sp, h) ==
  IF h.orphan \/ ~sp.mounted THEN sp
  ELSE IF HasNextSpeechTask(h.idx)
       THEN [sp EXCEPT !.chunks = 0, !.currentIndex = @ + 1, !.elapsedMs = 0]
       ELSE [sp EXCEPT !.chunks = 0]

\* the invocation after onUpload resolved (lines 79-80, 86-94)
AfterUploadHandler(h) ==
  [h EXCEPT !.pc = "done", !.trace = Append(@, "ok"),
            !.effect = IF HasNextSpeechTask(h.idx) THEN "advanced" ELSE "completed"]

\* the component after its teardown effect ran (SpeechRecorder.tsx 59-63): its
\* state and refs are gone
TeardownSpeech(sp) == stopTimer([NotMountedSpeech EXCEPT !.timerOn = sp.timerOn])

\* the teardown effect on mediaRecorderRef.current (SpeechRecorder.tsx 61-62):
\* the tracks of its stream are stopped and a recording recorder stops
TeardownRecorder(r) ==
  ReleaseStream(IF r.state = "recording" THEN [r EXCEPT !.state = "inactive"] ELSE r)

\* invocations still running when the component is torn down keep running, on
\* the refs and setters of the unmounted instance; the stopped recorder fires
\* its last dataavailable (n = 1 when that chunk is non-empty)
OrphanAll(h) == [k \in 1..Len(h) |-> [h[k] EXCEPT !.orphan = TRUE]]
TeardownHandlers(h, r, n) ==
  IF r.state = "recording" THEN AppendHandlers(OrphanAll(h), r, TRUE, n) ELSE OrphanAll(h)

\* ------------------------------------------------------- session orchestrator
NoOnboarding == [pc |-> "idle", uid |-> None, trig |-> 0]
NoCognitive ==
  [pc |-> "idle", i |-> 0, aid |-> None, uid |-> None, polls |-> <<>>, trig |-> 0,
   outcome |-> "none", toast |-> "none"]

\* CognitiveTasks useState initial values (CognitiveTasks.tsx 46-48)
FreshCog == [mounted |-> TRUE, currentIndex |-> 0, isFinished |-> FALSE]
NotMountedCog == [FreshCog EXCEPT !.mounted = FALSE]

\* faulty variant: the pointer skips a phase
advanceStep_Mut(index) == Min(index + 2, LastStep)

\* advanceStep's updater (part_004 212)
advanceStep(index) == Min(index + 1, LastStep)

\* the conditions under which Assessment renders its children (part_004 422, 434)
SpeechVisible(step, u, a) == step = StepSpeech /\ u # None /\ a # None
CogVisible(step, a) == step = StepCognitive /\ a # None

\* faulty variant: one attempt more
PollLoopContinues_Mut(i) == i < PollAttempts + 1

\* the loop condition of the polling loop (part_004 336)
PollLoopContinues(i) == i < PollAttempts

\* faulty variant: a result whose assessment id is present replaces the entry
saveAssessmentResult_Mut(arr, r) ==
  IF \E k \in 1..Len(arr) : arr[k].assessmentId = r.assessmentId
  THEN [k \in 1..Len(arr) |-> IF arr[k].assessmentId = r.assessmentId THEN r ELSE arr[k]]
  ELSE Append(arr, r)

\* saveAssessmentResult (part_003 7-11) on the array loaded for one user:
\* the result is pushed unless an entry has its assessmentId
saveAssessmentResult(arr, r) ==
  IF \E k \in 1..Len(arr) : arr[k].assessmentId = r.assessmentId
  THEN arr ELSE Append(arr, r)

\* loadAssessmentHistory (part_003 18-25): a missing item reads as []
loadAssessmentHistory(store, u) == store[u]

\* ------------------------------------------------ pipeline steps (both specs)
\* startRecording, getUserMedia granted (SpeechRecorder.tsx 106-150); the
\* button is rendered only for a current task and disabled while isUploading.
\* (A rejected getUserMedia only shows a toast: lines 151-157 change no state.)
StartRecording ==
  /\ speech.mounted /\ ~speech.isRecording /\ ~isSpeechUploading
  /\ speech.currentIndex < NumSpeechTasks
  /\ rec' = [state |-> "recording", idx |-> speech.currentIndex,
             aid |-> assessmentId, uid |-> user, stream |-> "live", stray |-> rec.stray]
  /\ speech' = [speech EXCEPT !.chunks = 0, !.isRecording = TRUE,
                              !.elapsedMs = 0, !.timerOn = TRUE]
  /\ UNCHANGED <<sessVars, hs, completions, procVars, servVars>>

\* the requestAnimationFrame tick (SpeechRecorder.tsx 125-131); elapsedMs is
\* kept as zero / non-zero
Tick ==
  /\ speech.mounted /\ speech.timerOn /\ speech.elapsedMs = 0
  /\ speech' = [speech EXCEPT !.elapsedMs = 1]
  /\ UNCHANGED <<sessVars, rec, hs, completions, procVars, servVars>>

\* n non-empty dataavailable events of the recording recorder, the recorder
\* stopping after them when stops: the synchronous head of handleDataAvailable
\* (SpeechRecorder.tsx 67-78) for each.  An empty chunk returns at line 67.
ChunkEvents(n, stops) ==
  /\ rec.state = "recording"
  /\ Len(hs) + n <= MaxChunks
  /\ hs' = AppendHandlers(hs, rec, FALSE, n)
  /\ speech' = LET sp1 == [speech EXCEPT !.chunks = @ + n]
               IN IF stops THEN OnRecorderStop(sp1) ELSE sp1
  /\ rec' = IF stops THEN ReleaseStream([rec EXCEPT !.state = "inactive"]) ELSE rec
  /\ UNCHANGED completions

\* stopRecording (SpeechRecorder.tsx 160-167): requestData() and stop() queue
\* two dataavailable events and the stop event; the button is rendered only
\* for a current task (SpeechRecorder.tsx 173-175)
UserStops(n) ==
  /\ speech.mounted /\ speech.isRecording /\ ~isSpeechUploading
  /\ speech.currentIndex < NumSpeechTasks
  /\ n \in 0..2
  /\ ChunkEvents(n, TRUE)

\* the maxDurationMs timeout (SpeechRecorder.tsx 144-150): stop() queues one
\* dataavailable event and the stop event
TimerStops(n) ==
  /\ n \in 0..1
  /\ ChunkEvents(n, TRUE)

\* ------------------------------------------------------------ SpecPipeline
\* a timeslice chunk (recorder.start(1000), SpeechRecorder.tsx 142)
DataAvailable ==
  /\ ChunkEvents(1, FALSE)
  /\ UNCHANGED <<sessVars, procVars, servVars>>

StopRecording ==
  /\ \E n \in 0..2 : UserStops(n)
  /\ UNCHANGED <<sessVars, procVars, servVars>>

MaxDurationElapsed ==
  /\ \E n \in 0..1 : TimerStops(n)
  /\ UNCHANGED <<sessVars, procVars, servVars>>

\* the onUpload stub resolves (SpeechRecorder.tsx 78-80, 86-94)
UploadResolves(k) ==
  /\ hs[k].pc = "upload"
  /\ hs' = [hs EXCEPT ![k] = AfterUploadHandler(@)]
  /\ speech' = AfterUploadSpeech(speech, hs[k])
  /\ completions' = IF HasNextSpeechTask(hs[k].idx) THEN completions ELSE completions + 1
  /\ UNCHANGED <<sessVars, rec, procVars, servVars>>

\* the onUpload stub rejects (SpeechRecorder.tsx 81-83): the delay starts
UploadRejects(k) ==
  /\ hs[k].pc = "upload"
  /\ hs' = [hs EXCEPT ![k] = [@ EXCEPT !.pc = "sleep", !.trace = Append(@, "fail")]]
  /\ UNCHANGED <<sessVars, speech, rec, completions, procVars, servVars>>

\* the invocation after the 600 ms delay (SpeechRecorder.tsx 76, 83-86, 95-101)
AfterDelayHandler(h) ==
  IF UploadLoopContinues(h.i + 1)
  THEN [h EXCEPT !.i = @ + 1, !.pc = "upload", !.trace = @ \o <<"delay", "call">>]
  ELSE [h EXCEPT !.i = @ + 1, !.pc = "failed", !.effect = "failed",
                 !.trace = Append(@, "delay"), !.toast = "Upload failed"]

RetryDelayElapsed(k) ==
  /\ hs[k].pc = "sleep"
  /\ hs' = [hs EXCEPT ![k] = AfterDelayHandler(@)]
  /\ UNCHANGED <<sessVars, speech, rec, completions, procVars, servVars>>

\* startRecording throws after getUserMedia resolved (SpeechRecorder.tsx
\* 108-157): at the MediaRecorder constructor (line 117), before anything is
\* assigned, or at recorder.start (line 142), after the ref, the state and
\* the listeners were set.  The catch block only shows a toast.
StartRecordingThrows(step) ==
  /\ speech.mounted /\ ~speech.isRecording /\ ~isSpeechUploading
  /\ speech.currentIndex < NumSpeechTasks
  /\ IF step = "construct"
     THEN /\ rec' = [rec EXCEPT !.stray = TRUE]
          /\ speech' = speech
     ELSE /\ rec' = [state |-> "inactive", idx |-> speech.currentIndex,
                     aid |-> assessmentId, uid |-> user, stream |-> "live",
                     stray |-> rec.stray]
          /\ speech' = [speech EXCEPT !.chunks = 0, !.isRecording = TRUE,
                                      !.elapsedMs = 0, !.timerOn = TRUE]
  /\ UNCHANGED <<sessVars, hs, completions, procVars, servVars>>

\* the harness unmounts the component (SpeechRecorder.tsx 59-63)
Unmount ==
  /\ speech.mounted
  /\ \E n \in 0..1 :
       /\ Len(hs) + n <= MaxChunks
       /\ hs' = TeardownHandlers(hs, rec, n)
  /\ speech' = TeardownSpeech(speech)
  /\ rec' = TeardownRecorder(rec)
  /\ UNCHANGED <<sessVars, completions, procVars, servVars>>

\* the page, the session context and the service before anything happened
InitAssessment ==
  /\ user = None /\ assessmentId = None /\ activeStepIndex = 0
  /\ isLoading = FALSE /\ isSpeechUploading = FALSE
  /\ result = None /\ isResultPending = FALSE
  /\ history = <<>> /\ storage = [u \in UserIds |-> <<>>]
  /\ rec = NoRecorder /\ hs = <<>> /\ completions = 0
  /\ onb = NoOnboarding /\ cog = NoCognitive
  /\ uploaded = {} /\ nextAid = 1

InitSession == InitAssessment /\ cogc = NotMountedCog

\* the component rendered by a harness with stub props
InitPipeline == InitSession /\ speech = FreshSpeech

NextPipeline ==
  \/ StartRecording
  \/ Tick
  \/ DataAvailable
  \/ StopRecording
  \/ MaxDurationElapsed
  \/ \E k \in 1..Len(hs) : UploadResolves(k)
  \/ \E k \in 1..Len(hs) : UploadRejects(k)
  \/ \E k \in 1..Len(hs) : RetryDelayElapsed(k)
  \/ Unmount

SpecPipeline == InitPipeline /\ [][NextPipeline]_vars

\* SpecDevice: the pipeline on a platform where startRecording can throw
\* after the device was acquired
NextDevice ==
  \/ NextPipeline
  \/ \E step \in {"construct", "start"} : StartRecordingThrows(step)

SpecDevice == InitPipeline /\ [][NextDevice]_vars

\* ------------------------------------------------------------------- Spec
\* The render that follows a continuation's state updates: sp, h and upl are
\* the SpeechRecorder state, the invocations and isSpeechUploading after the
\* continuation's own updates.  A SpeechRecorder that is no longer rendered
\* is torn down (its recorder stops and may fire a last non-empty chunk, whose
\* invocation calls handleSpeechUpload); children that become rendered mount
\* with fresh state.
Rerender(sp, h, upl) ==
  LET visS == SpeechVisible(activeStepIndex', user', assessmentId')
      visC == CogVisible(activeStepIndex', assessmentId')
      tear == sp.mounted /\ ~visS
  IN /\ speech' = IF visS THEN (IF sp.mounted THEN sp ELSE FreshSpeech)
                  ELSE IF tear THEN TeardownSpeech(sp) ELSE sp
     /\ rec' = IF tear THEN TeardownRecorder(rec)
               ELSE IF visS /\ ~sp.mounted THEN [NoRecorder EXCEPT !.stray = rec.stray]
               ELSE rec
     /\ \E n \in 0..1 :
          /\ n = 1 => tear /\ rec.state = "recording" /\ Len(h) < MaxChunks
          /\ hs' = IF tear THEN TeardownHandlers(h, rec, n) ELSE h
          /\ isSpeechUploading' = IF n = 1 THEN TRUE ELSE upl
     /\ cogc' = IF visC THEN (IF cogc.mounted THEN cogc ELSE FreshCog) ELSE NotMountedCog

\* handleOnboardingSubmit up to the registerUser request (part_004 222-231);
\* the form's button is disabled while isLoading (part_002 192)
SubmitOnboarding ==
  /\ activeStepIndex = StepOnboarding /\ ~isLoading
  /\ nextAid <= MaxSessions
  /\ isLoading' = TRUE
  /\ onb' = [pc |-> "register", uid |-> None, trig |-> activeStepIndex]
  /\ UNCHANGED <<user, assessmentId, activeStepIndex, isSpeechUploading, result,
                 isResultPending, history, storage, pipeVars, cogc, cog, servVars>>

\* registerUser rejected (part_004 248-256)
RegisterFails ==
  /\ onb.pc = "register"
  /\ isLoading' = FALSE
  /\ onb' = NoOnboarding
  /\ UNCHANGED <<user, assessmentId, activeStepIndex, isSpeechUploading, result,
                 isResultPending, history, storage, pipeVars, cogc, cog, servVars>>

\* registerUser resolved with user u (part_004 231-241); the [user] effect
\* reloads the history (part_004 205-209)
RegisterOk(u) ==
  /\ onb.pc = "register"
  /\ user' = u
  /\ history' = loadAssessmentHistory(storage, u)
  /\ onb' = [onb EXCEPT !.pc = "start", !.uid = u]
  /\ UNCHANGED <<assessmentId, activeStepIndex, isLoading, result, isResultPending,
                 storage, completions, cog, servVars>>
  /\ Rerender(speech, hs, isSpeechUploading)

\* startAssessment rejected (part_004 248-256)
StartFails ==
  /\ onb.pc = "start"
  /\ isLoading' = FALSE
  /\ onb' = NoOnboarding
  /\ UNCHANGED <<user, assessmentId, activeStepIndex, isSpeechUploading, result,
                 isResultPending, history, storage, pipeVars, cogc, cog, servVars>>

\* startAssessment resolved (part_004 241-247, 254-256); the [assessmentId]
\* effect clears the result (part_004 201-203)
StartOk ==
  /\ onb.pc = "start"
  /\ assessmentId' = nextAid
  /\ nextAid' = nextAid + 1
  /\ activeStepIndex' = advanceStep(activeStepIndex)
  /\ result' = None
  /\ isLoading' = FALSE
  /\ onb' = NoOnboarding
  /\ UNCHANGED <<user, isResultPending, history, storage, completions, cog, uploaded>>
  /\ Rerender(speech, hs, isSpeechUploading)

\* a timeslice chunk; handleSpeechUpload runs up to its request (part_004 259-278)
SpeechChunk ==
  /\ ChunkEvents(1, FALSE)
  /\ isSpeechUploading' = TRUE
  /\ UNCHANGED <<user, assessmentId, activeStepIndex, isLoading, result,
                 isResultPending, history, storage, procVars, servVars>>

SpeechStop ==
  /\ \E n \in 0..2 : UserStops(n) /\ isSpeechUploading' = (n > 0)
  /\ UNCHANGED <<user, assessmentId, activeStepIndex, isLoading, result,
                 isResultPending, history, storage, procVars, servVars>>

SpeechTimerStop ==
  /\ \E n \in 0..1 : TimerStops(n) /\ isSpeechUploading' = (n > 0 \/ isSpeechUploading)
  /\ UNCHANGED <<user, assessmentId, activeStepIndex, isLoading, result,
                 isResultPending, history, storage, procVars, servVars>>

\* handleSpeechUpload after its request settled (part_004 280-292): it returns
\* normally after a rejected request as well, so handleDataAvailable goes on
\* at SpeechRecorder.tsx 79; onComplete is handleSpeechComplete (part_004 295-301)
SpeechRequestSettled(k, accepted) ==
  LET h == hs[k]
      h1 == [AfterUploadHandler(h) EXCEPT
               !.req = IF accepted THEN "accepted" ELSE "rejected",
               !.toast = IF ~HasNextSpeechTask(h.idx) THEN "Speech tasks done"
                         ELSE IF accepted THEN "Speech sample captured"
                         ELSE "Upload failed"]
  IN /\ h.pc = "upload"
     /\ uploaded' = IF accepted THEN uploaded \cup {<<h.aid, h.idx>>} ELSE uploaded
     /\ activeStepIndex' = IF HasNextSpeechTask(h.idx) THEN activeStepIndex
                           ELSE advanceStep(activeStepIndex)
     /\ UNCHANGED <<user, assessmentId, isLoading, result, isResultPending, history,
                    storage, completions, onb, cog, nextAid>>
     /\ Rerender(AfterUploadSpeech(speech, h), [hs EXCEPT ![k] = h1], FALSE)

SpeechRequestOk(k) == SpeechRequestSettled(k, TRUE)
SpeechRequestFails(k) == SpeechRequestSettled(k, FALSE)

\* the user finishes the current cognitive task: the pointer part of
\* completeTask (CognitiveTasks.tsx 79-83)
CogCompleteTask ==
  /\ cogc.mounted /\ ~cogc.isFinished
  /\ cogc' = IF cogc.currentIndex < NumCognitiveTasks - 1
             THEN [cogc EXCEPT !.currentIndex = @ + 1]
             ELSE [cogc EXCEPT !.isFinished = TRUE]
  /\ UNCHANGED <<sessVars, pipeVars, onb, cog, servVars>>

\* "Submit Cognitive Data" (CognitiveTasks.tsx 357-361): handleFinish calls
\* handleCognitiveComplete, which runs up to the submitCognitiveData request
\* (part_004 303-327) or returns at its guard
CogSubmit ==
  /\ cogc.mounted /\ cogc.isFinished /\ ~isLoading
  /\ assessmentId # None /\ user # None
  /\ isLoading' = TRUE
  /\ activeStepIndex' = advanceStep(activeStepIndex)
  /\ isResultPending' = TRUE
  /\ cog' = [NoCognitive EXCEPT !.pc = "submit", !.aid = assessmentId, !.uid = user,
                                !.trig = activeStepIndex]
  /\ UNCHANGED <<user, assessmentId, result, history, storage, completions, onb, servVars>>
  /\ Rerender(speech, hs, isSpeechUploading)

\* faulty variant: a rejected request is swallowed and the polling starts
CogCaught_Mut(c) == [c EXCEPT !.pc = "fetch", !.polls = Append(@, "pending")]

\* the catch and finally blocks (part_004 358-367)
CogCaught(c) == [c EXCEPT !.pc = "done", !.outcome = "error", !.toast = "Prediction failed"]

\* submitCognitiveData or requestRiskPrediction rejected
CogRequestFails ==
  /\ cog.pc \in {"submit", "predict"}
  /\ cog' = CogCaught(cog)
  /\ isResultPending' = FALSE
  /\ isLoading' = FALSE
  /\ UNCHANGED <<user, assessmentId, activeStepIndex, isSpeechUploading, result,
                 history, storage, pipeVars, cogc, onb, servVars>>

\* submitCognitiveData resolved: requestRiskPrediction is issued (part_004 328-331)
SubmitOk ==
  /\ cog.pc = "submit"
  /\ cog' = [cog EXCEPT !.pc = "predict", !.toast = "Cognitive data captured"]
  /\ UNCHANGED <<sessVars, pipeVars, cogc, onb, servVars>>

\* the loop head: the next fetch is issued, or the loop is left without a
\* result (part_004 336-338, 345, 351-357, 365-367)
PollNext(c, i) ==
  IF PollLoopContinues(i)
  THEN [c EXCEPT !.i = i, !.pc = "fetch", !.polls = Append(@, "pending")]
  ELSE [c EXCEPT !.i = i, !.pc = "done", !.outcome = "timeout", !.toast = "Prediction pending"]

\* faulty variant: setResult is forgotten
ResultAfterPoll_Mut(fetched, cur) == cur

\* the result state after the loop (part_004 345-346)
ResultAfterPoll(fetched, cur) == IF fetched # None THEN fetched ELSE cur

\* the pending flag after the loop: line 357 runs whether or not a result
\* was fetched
PendingAfterPoll(fetched) == FALSE

\* requestRiskPrediction resolved: the first fetch is issued (part_004 331-338)
PredictOk ==
  /\ cog.pc = "predict"
  /\ cog' = PollNext(cog, 0)
  /\ UNCHANGED <<sessVars, pipeVars, cogc, onb, servVars>>

\* fetchAssessmentResult rejected: the 1 s sleep starts (part_004 340-343)
FetchFails ==
  /\ cog.pc = "fetch"
  /\ cog' = [cog EXCEPT !.pc = "sleep", !.polls[Len(cog.polls)] = "fail"]
  /\ UNCHANGED <<sessVars, pipeVars, cogc, onb, servVars>>

\* the sleep is over: i++ and the loop head (part_004 336, 342)
PollDelayElapsed ==
  /\ cog.pc = "sleep"
  /\ cog' = PollNext(cog, cog.i + 1)
  /\ isResultPending' = IF cog'.pc = "done" THEN PendingAfterPoll(None) ELSE isResultPending
  /\ result' = IF cog'.pc = "done" THEN ResultAfterPoll(None, result) ELSE result
  /\ isLoading' = IF cog'.pc = "done" THEN FALSE ELSE isLoading
  /\ UNCHANGED <<user, assessmentId, activeStepIndex, isSpeechUploading,
                 history, storage, pipeVars, cogc, onb, servVars>>

\* fetchAssessmentResult resolved (part_004 338-339, 345-350, 357, 365-367)
FetchOk ==
  /\ cog.pc = "fetch"
  /\ cog' = [cog EXCEPT !.pc = "done", !.outcome = "result", !.polls[Len(cog.polls)] = "ok"]
  /\ result' = ResultAfterPoll(cog.aid, result)
  /\ storage' = [storage EXCEPT ![cog.uid] =
                    saveAssessmentResult(@, [assessmentId |-> cog.aid])]
  /\ history' = loadAssessmentHistory(storage', cog.uid)
  /\ isResultPending' = PendingAfterPoll(cog.aid)
  /\ isLoading' = FALSE
  /\ UNCHANGED <<user, assessmentId, activeStepIndex, isSpeechUploading,
                 pipeVars, cogc, onb, servVars>>

\* clearSession (SpeechRecorder.tsx 257-260, the session context)
clearSession == user' = None /\ assessmentId' = None

\* faulty variant: setIsResultPending(false) is forgotten
ResetAssessment_Mut ==
  /\ activeStepIndex = StepResults
  /\ clearSession
  /\ activeStepIndex' = StepOnboarding
  /\ result' = None
  /\ UNCHANGED <<isResultPending, isLoading, history, storage, completions, onb, cog,
                 servVars>>
  /\ Rerender(speech, hs, isSpeechUploading)

\* resetAssessment (part_004 215-220), the "Start New Assessment" button of
\* the results phase (part_004 470)
ResetAssessment ==
  /\ activeStepIndex = StepResults
  /\ clearSession
  /\ activeStepIndex' = StepOnboarding
  /\ result' = None
  /\ isResultPending' = FALSE
  /\ UNCHANGED <<isLoading, history, storage, completions, onb, cog, servVars>>
  /\ Rerender(speech, hs, isSpeechUploading)

Init == InitSession /\ speech = NotMountedSpeech

Next ==
  \/ SubmitOnboarding
  \/ RegisterFails
  \/ \E u \in UserIds : RegisterOk(u)
  \/ StartFails
  \/ StartOk
  \/ StartRecording
  \/ Tick
  \/ SpeechChunk
  \/ SpeechStop
  \/ SpeechTimerStop
  \/ \E k \in 1..Len(hs) : SpeechRequestOk(k)
  \/ \E k \in 1..Len(hs) : SpeechRequestFails(k)
  \/ CogCompleteTask
  \/ CogSubmit
  \/ CogRequestFails
  \/ SubmitOk
  \/ PredictOk
  \/ FetchFails
  \/ PollDelayElapsed
  \/ FetchOk
  \/ ResetAssessment

Spec == Init /\ [][Next]_vars

\* ---------------------------------------------------------------- SpecCog
\* The CognitiveTasks component alone, rendered with a task list and a stub
\* onComplete.  Here cogc holds, besides the pointer and the finished flag,
\* the tasks prop and the taskStates map (keyed by the task's position in the
\* list, the ids of a list being unique).  Times are kept as zero / non-zero:
\* startTime is None or 1 (set), responseTimeMs is 0 or 1 (some time passed).
Undefined == -1

Max(a, b) == IF a > b THEN a ELSE b

OptionIdx == 0..(MaxOptions - 1)

\* sequences of length n of pairwise distinct option indices
InjectiveSeqs(n) ==
  {q \in [1..n -> OptionIdx] : \A i, j \in 1..n : i # j => q[i] # q[j]}

\* what makeWordRecallTask and makeDigitSpanTask return (part_004 72-99): the
\* options and the positions of the targets among them; a word-recall task
\* has as many options as targets, a digit-span task has distractors as well
SequenceTasks ==
  {[type |-> IF Len(e) = MaxOptions THEN "word-recall" ELSE "digit-span",
    numOptions |-> MaxOptions, hasSequence |-> TRUE, sequenceAnswer |-> e,
    correctAnswer |-> Undefined] : e \in UNION {InjectiveSeqs(n) : n \in 1..MaxOptions}}

\* single-choice tasks (part_004 120-138), with and without a designated
\* correct option (CognitiveTasks.tsx 16)
ChoiceTasks ==
  {[type |-> "attention", numOptions |-> MaxOptions, hasSequence |-> FALSE,
    sequenceAnswer |-> <<>>, correctAnswer |-> a] : a \in OptionIdx \cup {Undefined}}

\* the task without options (part_004 140-146)
NoInputTasks ==
  {[type |-> "clock-drawing", numOptions |-> 0, hasSequence |-> FALSE,
    sequenceAnswer |-> <<>>, correctAnswer |-> Undefined]}

TaskKinds == SequenceTasks \cup ChoiceTasks \cup NoInputTasks

\* the tasks prop: a non-empty list; at most one of its tasks has options,
\* the others are clock-drawing tasks
TaskLists ==
  {tl \in UNION {[1..n -> TaskKinds] : n \in 1..MaxTasks} :
     Cardinality({i \in 1..Len(tl) : tl[i].numOptions > 0}) <= 1}

\* performance.now() - startTime at a completion, kept as zero / non-zero
ElapsedMs == {0, 1}

\* a TaskState that was never written (taskStates[id] undefined) and the
\* default object the handlers spread (CognitiveTasks.tsx 55, 95-100, 122);
\* completed is not program state: it records that completeTask has written
\* a response for the task
NoTaskState ==
  [present |-> FALSE, startTime |-> None, responseTimeMs |-> 0, correct |-> "null",
   errors |-> 0, selectedOption |-> Undefined, sequence |-> <<>>, freeResponse |-> "",
   completed |-> FALSE]

Present(st) == [st EXCEPT !.present = TRUE]

\* { ...a, ...b }
Spread(a, b) == [f \in DOMAIN a |-> IF f \in DOMAIN b THEN b[f] ELSE a[f]]

\* the initial accumulator of the scores (CognitiveTasks.tsx 167-172)
ZeroScores ==
  [memoryScore |-> 0, attentionScore |-> 0, languageScore |-> 0, executiveScore |-> 0]

\* nothing was handed to onComplete yet
NoPayload == [handed |-> FALSE, logs |-> <<>>, scores |-> ZeroScores, clockDrawing |-> ""]

\* useState initial values (CognitiveTasks.tsx 46-48) for the list tl
MountedCog(tl) ==
  [mounted |-> TRUE, currentIndex |-> 0, isFinished |-> FALSE, tasks |-> tl,
   taskStates |-> [id \in 1..Len(tl) |-> NoTaskState], payload |-> NoPayload]

\* currentTask (CognitiveTasks.tsx 49) and its key in taskStates
CurrentId(c) == c.currentIndex + 1
CurrentTask(c) == c.tasks[CurrentId(c)]
CurrentState(c) == c.taskStates[CurrentId(c)]

\* startTaskTimer (CognitiveTasks.tsx 51-59)
startTaskTimer(c, id) ==
  [c EXCEPT !.taskStates[id] = [Present(@) EXCEPT !.startTime = 1]]

\* faulty variant: the last task advances the pointer as well
completeTaskPointer_Mut(c) == [c EXCEPT !.currentIndex = @ + 1]

\* the pointer part of completeTask (CognitiveTasks.tsx 79-83)
completeTaskPointer(c) ==
  IF c.currentIndex < Len(c.tasks) - 1
  THEN [c EXCEPT !.currentIndex = @ + 1]
  ELSE [c EXCEPT !.isFinished = TRUE]

\* the updater of completeTask on the task's state (CognitiveTasks.tsx 62-77)
completeTaskState(st, overrides, elapsed) ==
  IF st.startTime = None THEN st
  ELSE [Spread(st, overrides) EXCEPT !.startTime = None,
          !.responseTimeMs = elapsed, !.completed = TRUE]

\* completeTask (CognitiveTasks.tsx 61-84)
completeTask(c, id, overrides, elapsed) ==
  completeTaskPointer(
    [c EXCEPT !.taskStates[id] = completeTaskState(@, overrides, elapsed)])

\* faulty variant: the duplicate test is forgotten
SelectInSequence_Mut(st, task, optionIndex) ==
  IF Len(st.sequence) >= Len(task.sequenceAnswer) THEN st
  ELSE [Present(st) EXCEPT !.sequence = Append(@, optionIndex)]

\* the sequence-mode updater of handleOptionSelect (CognitiveTasks.tsx 94-113)
SelectInSequence(st, task, optionIndex) ==
  IF \/ \E i \in 1..Len(st.sequence) : st.sequence[i] = optionIndex
     \/ Len(st.sequence) >= Len(task.sequenceAnswer)
  THEN st
  ELSE [Present(st) EXCEPT !.sequence = Append(@, optionIndex)]

\* faulty variant: correctness is left unknown although an answer is designated
ChoiceCorrect_Mut(task, optionIndex) == "null"

\* isCorrect of the single-choice mode (CognitiveTasks.tsx 118)
ChoiceCorrect(task, optionIndex) ==
  IF task.correctAnswer # Undefined
  THEN (IF optionIndex = task.correctAnswer THEN "true" ELSE "false")
  ELSE "null"

\* handleOptionSelect (CognitiveTasks.tsx 86-129)
handleOptionSelect(c, id, optionIndex, elapsed) ==
  LET task == c.tasks[id]
      isCorrect == ChoiceCorrect(task, optionIndex)
  IN IF c.taskStates[id].startTime = None THEN c
     ELSE IF task.hasSequence /\ task.numOptions > 0
     THEN [c EXCEPT !.taskStates[id] = SelectInSequence(@, task, optionIndex)]
     ELSE completeTask(
            [c EXCEPT !.taskStates[id] =
               [Present(@) EXCEPT !.selectedOption = optionIndex, !.correct = isCorrect]],
            id, [correct |-> isCorrect, selectedOption |-> optionIndex], elapsed)

\* expected[i] / seq[i] of a JavaScript array, i counted from 1 here
At(q, i) == IF i <= Len(q) THEN q[i] ELSE Undefined

\* faulty variant: only the positions both arrays have are compared
Mismatches_Mut(expected, seq) ==
  Cardinality({i \in 1..Min(Len(expected), Len(seq)) : At(expected, i) # At(seq, i)})

\* faulty variant: the selection is compared as a set
Mismatches_Mut2(expected, seq) ==
  Cardinality({i \in 1..Max(Len(expected), Len(seq)) :
                 ~\E j \in 1..Len(seq) : seq[j] = At(expected, i)})

\* faulty variant: the positions are compared one off
Mismatches_Mut3(expected, seq) ==
  Cardinality({i \in 1..Max(Len(expected), Len(seq)) : At(expected, i) # At(seq, i + 1)})

\* mismatches of the Complete handler (CognitiveTasks.tsx 276-280)
Mismatches(expected, seq) ==
  Cardinality({i \in 1..Max(Len(expected), Len(seq)) : At(expected, i) # At(seq, i)})

\* faulty variant: a selection of the expected length is correct
SequenceCorrect_Mut(expected, seq) ==
  IF Len(seq) = Len(expected) THEN "true" ELSE "false"

\* isCorrect of the Complete handler (CognitiveTasks.tsx 281)
SequenceCorrect(expected, seq) ==
  IF Mismatches(expected, seq) = 0 /\ Len(seq) = Len(expected) THEN "true" ELSE "false"

\* faulty variant: the free-response task is not marked correct
MarkCorrect_Mut(task) == << >>

\* markCorrect (CognitiveTasks.tsx 290); << >> is the record without fields
MarkCorrect(task) == IF task.type = "clock-drawing" THEN [correct |-> "true"] ELSE << >>

\* the onClick of Complete (CognitiveTasks.tsx 270-293)
OnCompleteClick(c, elapsed) ==
  LET id == CurrentId(c)
      task == CurrentTask(c)
      seq == CurrentState(c).sequence
  IN IF task.hasSequence
     THEN completeTask(c, id, [correct |-> SequenceCorrect(task.sequenceAnswer, seq),
                               errors |-> Mismatches(task.sequenceAnswer, seq)], elapsed)
     ELSE IF task.numOptions = 0 /\ CurrentState(c).startTime = None
     THEN completeTask(startTaskTimer(c, id), id, MarkCorrect(task), 0)
     ELSE completeTask(c, id, MarkCorrect(task), elapsed)

\* faulty variant: the oldest index is removed
UndoSequence_Mut(st) ==
  IF Len(st.sequence) = 0 THEN st
  ELSE [st EXCEPT !.sequence = Tail(@)]

\* the updater of Undo (CognitiveTasks.tsx 312-318)
UndoSequence(st) ==
  IF Len(st.sequence) = 0 THEN st
  ELSE [st EXCEPT !.sequence = SubSeq(@, 1, Len(@) - 1)]

\* the buttons (CognitiveTasks.tsx 256, 264-269, 300-307, 343-348)
BeginDisabled(c) == CurrentState(c).startTime # None
CompleteDisabled(c) ==
  (CurrentTask(c).hasSequence \/ CurrentTask(c).numOptions > 0)
    /\ CurrentState(c).startTime = None
OptionDisabled(c, k) ==
  \/ CurrentState(c).startTime = None
  \/ CurrentTask(c).hasSequence /\ \E i \in 1..Len(CurrentState(c).sequence) :
                                      CurrentState(c).sequence[i] = k
UndoRendered(c) == CurrentTask(c).hasSequence /\ Len(CurrentState(c).sequence) > 0

cogFrame == <<sessVars, pipeVars, onb, cog, servVars>>

BeginTask ==
  /\ cogc.mounted /\ ~BeginDisabled(cogc)
  /\ cogc' = startTaskTimer(cogc, CurrentId(cogc))
  /\ UNCHANGED cogFrame

SelectOption(k) ==
  /\ cogc.mounted /\ k < CurrentTask(cogc).numOptions /\ ~OptionDisabled(cogc, k)
  /\ \E elapsed \in ElapsedMs : cogc' = handleOptionSelect(cogc, CurrentId(cogc), k, elapsed)
  /\ UNCHANGED cogFrame

CompleteClick ==
  /\ cogc.mounted /\ ~CompleteDisabled(cogc)
  /\ \E elapsed \in ElapsedMs : cogc' = OnCompleteClick(cogc, elapsed)
  /\ UNCHANGED cogFrame

UndoClick ==
  /\ cogc.mounted /\ UndoRendered(cogc)
  /\ cogc' = [cogc EXCEPT !.taskStates[CurrentId(cogc)] = UndoSequence(@)]
  /\ UNCHANGED cogFrame

\* the textarea of the clock-drawing task (CognitiveTasks.tsx 231-250)
EditFreeResponse(text) ==
  /\ cogc.mounted /\ CurrentTask(cogc).type = "clock-drawing"
  /\ CurrentState(cogc).freeResponse # text
  /\ cogc' = [cogc EXCEPT !.taskStates[CurrentId(cogc)] =
                            [Present(@) EXCEPT !.freeResponse = text]]
  /\ UNCHANGED cogFrame

\* ---- handleFinish: the logs and the scores handed to onComplete.  Scores
\* are kept in tenths (1 is FullScore, the penalty 0.1 is PenaltyPerError).
FullScore == 10
PenaltyPerError == 1

\* faulty variant: the penalty is subtracted without the floor at 0
adjustedScore_Mut(st) ==
  (IF st.correct = "true" THEN FullScore ELSE 0) - st.errors * PenaltyPerError

\* baseScore, penalty and adjustedScore (CognitiveTasks.tsx 155-157)
adjustedScore(st) ==
  LET baseScore == IF st.correct = "true" THEN FullScore ELSE 0
      penalty == st.errors * PenaltyPerError
  IN Max(0, baseScore - penalty)

\* faulty variant: digit-span is counted as memory
AddToDomain_Mut(acc, type, score) ==
  [acc EXCEPT
     !.memoryScore = IF type \in {"word-recall", "digit-span"} THEN @ + score ELSE @,
     !.attentionScore = IF type = "attention" THEN @ + score ELSE @,
     !.executiveScore = IF type = "clock-drawing" THEN @ + score ELSE @,
     !.languageScore = IF type = "tapping" THEN @ + score ELSE @]

\* faulty variant: attention tasks are counted as language
AddToDomain_Mut2(acc, type, score) ==
  [acc EXCEPT
     !.memoryScore = IF type = "word-recall" THEN @ + score ELSE @,
     !.attentionScore = IF type = "digit-span" THEN @ + score ELSE @,
     !.executiveScore = IF type = "clock-drawing" THEN @ + score ELSE @,
     !.languageScore = IF type \in {"tapping", "attention"} THEN @ + score ELSE @]

\* the four attributions of the reducer (CognitiveTasks.tsx 159-162)
AddToDomain(acc, type, score) ==
  [acc EXCEPT
     !.memoryScore = IF type = "word-recall" THEN @ + score ELSE @,
     !.attentionScore = IF type \in {"digit-span", "attention"} THEN @ + score ELSE @,
     !.executiveScore = IF type = "clock-drawing" THEN @ + score ELSE @,
     !.languageScore = IF type = "tapping" THEN @ + score ELSE @]

\* tasks.reduce over the tasks from position i on (CognitiveTasks.tsx 152-172)
RECURSIVE ReduceScores(_, _, _, _)
ReduceScores(tasks, states, i, acc) ==
  IF i > Len(tasks) THEN acc
  ELSE ReduceScores(tasks, states, i + 1,
                    AddToDomain(acc, tasks[i].type, adjustedScore(states[i])))

\* faulty variant: every log carries the state of the first task
LogOf_Mut(tasks, states, id) ==
  [taskId |-> id, taskType |-> "cognitive",
   responseTimeMs |-> states[1].responseTimeMs, correct |-> states[1].correct,
   errors |-> states[1].errors,
   metadata |-> [defined |-> tasks[id].hasSequence,
                 expectedSequence |-> tasks[id].sequenceAnswer,
                 selectedSequence |-> states[id].sequence]]

\* one element of logs (CognitiveTasks.tsx 133-150); the prompt text is left out
LogOf(tasks, states, id) ==
  [taskId |-> id, taskType |-> "cognitive",
   responseTimeMs |-> states[id].responseTimeMs, correct |-> states[id].correct,
   errors |-> states[id].errors,
   metadata |-> [defined |-> tasks[id].hasSequence,
                 expectedSequence |-> tasks[id].sequenceAnswer,
                 selectedSequence |-> states[id].sequence]]

\* clockDrawing (CognitiveTasks.tsx 175-176): the free response of the first
\* clock-drawing task
ClockDrawingOf(tasks, states) ==
  LET clocks == {i \in 1..Len(tasks) : tasks[i].type = "clock-drawing"}
  IN IF clocks = {} THEN ""
     ELSE states[CHOOSE i \in clocks : \A j \in clocks : i <= j].freeResponse

\* the argument of onComplete (CognitiveTasks.tsx 131-182)
handleFinishPayload(c) ==
  [handed |-> TRUE,
   logs |-> [id \in 1..Len(c.tasks) |-> LogOf(c.tasks, c.taskStates, id)],
   scores |-> ReduceScores(c.tasks, c.taskStates, 1, ZeroScores),
   clockDrawing |-> ClockDrawingOf(c.tasks, c.taskStates)]

\* faulty variant: the button is rendered before the tasks are finished
SubmitRendered_Mut(c) == TRUE

\* "Submit Cognitive Data" is rendered (CognitiveTasks.tsx 357)
SubmitRendered(c) == c.isFinished

\* the button's onClick, handleFinish.  The stub onComplete keeps its argument
\* and, as handleCognitiveComplete does by leaving the cognitive phase
\* (part_004 315, 434), has the component unmounted.
SubmitClick ==
  /\ cogc.mounted /\ SubmitRendered(cogc)
  /\ cogc' = [cogc EXCEPT !.payload = handleFinishPayload(cogc), !.mounted = FALSE]
  /\ UNCHANGED cogFrame

InitCog ==
  /\ InitAssessment /\ speech = NotMountedSpeech
  /\ \E tl \in TaskLists : cogc = MountedCog(tl)

NextCog ==
  \/ BeginTask
  \/ \E k \in OptionIdx : SelectOption(k)
  \/ CompleteClick
  \/ UndoClick
  \/ \E text \in {"", "text"} : EditFreeResponse(text)
  \/ SubmitClick

SpecCog == InitCog /\ [][NextCog]_vars

\* ------------------------------------------------------------- SpecScoring
\* The scoring engine of handleFinish applied to a finished component whose
\* task outcomes are drawn freely: correct in {true, false, unknown}, errors
\* up to MaxErrors for a list of one task, up to 1 per task for a longer
\* list, 0 for the catalog's list.
TaskTypes == {"word-recall", "digit-span", "tapping", "clock-drawing", "attention"}

Correctness == {"true", "false", "null"}

\* a task of each type, as far as handleFinish reads it
TaskOfType(t) ==
  [type |-> t,
   numOptions |-> IF t \in {"clock-drawing", "tapping"} THEN 0 ELSE MaxOptions,
   hasSequence |-> t \in {"word-recall", "digit-span"},
   sequenceAnswer |-> IF t \in {"word-recall", "digit-span"} THEN <<0>> ELSE <<>>,
   correctAnswer |-> IF t = "attention" THEN 0 ELSE Undefined]

\* the types of the list generateCognitiveTasks returns (part_004 114-148)
CatalogTypes ==
  <<"word-recall", "digit-span", "attention", "word-recall", "digit-span",
    "attention", "clock-drawing">>

ScoredLists == UNION {[1..n -> TaskTypes] : n \in 1..MaxTasks} \cup {CatalogTypes}

ErrorsUpTo(n) == IF n = 1 THEN MaxErrors ELSE IF n <= MaxTasks THEN 1 ELSE 0

\* the state of a completed task with the given outcome
ScoredState(correct, errors) ==
  [NoTaskState EXCEPT !.present = TRUE, !.completed = TRUE,
                      !.correct = correct, !.errors = errors]

FinishedCog(types, states) ==
  [MountedCog([i \in 1..Len(types) |-> TaskOfType(types[i])]) EXCEPT
     !.currentIndex = Len(types) - 1, !.isFinished = TRUE, !.taskStates = states]

InitScoring ==
  /\ InitAssessment /\ speech = NotMountedSpeech
  /\ \E types \in ScoredLists :
       \E states \in [1..Len(types) ->
                        {ScoredState(c, e) : c \in Correctness,
                                             e \in 0..ErrorsUpTo(Len(types))}] :
         cogc = FinishedCog(types, states)

NextScoring == SubmitClick

SpecScoring == InitScoring /\ [][NextScoring]_vars

\* ------------------------------------------------- SpecFetch, SpecHistory
\* fetchAssessmentResult's normalisation and the history store behind
\* handleCognitiveComplete's success path.  A result is the record of its
\* assessmentId and riskLevel.  SpecFetch draws one response in flight, with
\* either spelling of its keys; SpecHistory lets two users sign in and fetch
\* results in any order.
ServerLabels == {"Low", "Moderate", "Medium", "High"}

\* AssessmentResult.riskLevel (api.ts 51)
RiskLevels == {"Low", "Medium", "High"}

\* a key the response does not carry
NoLabel == "undefined"

\* a ?? b
Coalesce(a, b, absent) == IF a # absent THEN a ELSE b

\* faulty variant: the label is passed through
normalizeRisk_Mut(rawRisk) == rawRisk

\* normalizedRisk (api.ts 228)
normalizeRisk(rawRisk) == IF rawRisk = "Moderate" THEN "Medium" ELSE rawRisk

\* fetchAssessmentResult on a resolved response (api.ts 227-231)
fetchAssessmentResult(raw) ==
  [assessmentId |-> Coalesce(raw.assessmentId, raw.assessment_id, Undefined),
   riskLevel |-> normalizeRisk(Coalesce(raw.riskLevel, raw.risk_level, NoLabel))]

HistoryUsers == 1..2

Responses ==
  [assessmentId : AssessmentIds \cup {Undefined}, assessment_id : AssessmentIds \cup {Undefined},
   riskLevel : ServerLabels \cup {NoLabel}, risk_level : ServerLabels \cup {NoLabel}]

\* the responses of SpecHistory: camelCase keys, two labels
HistoryResponses ==
  {raw \in Responses : /\ raw.assessmentId # Undefined /\ raw.assessment_id = Undefined
                       /\ raw.riskLevel \in {"Low", "Moderate"} /\ raw.risk_level = NoLabel}

NoResponse ==
  [assessmentId |-> Undefined, assessment_id |-> Undefined,
   riskLevel |-> NoLabel, risk_level |-> NoLabel]

\* no handleCognitiveComplete invocation at its fetch
NoFetch == [pc |-> "idle", uid |-> None, raw |-> NoResponse]

\* setUser and the [user] effect (part_004 205-209, 232-239)
SignIn(u) ==
  /\ cog.pc # "fetch"
  /\ user' = u
  /\ history' = loadAssessmentHistory(storage, u)
  /\ UNCHANGED <<assessmentId, activeStepIndex, isLoading, isSpeechUploading, result,
                 isResultPending, storage, pipeVars, cogc, onb, cog, servVars>>

\* handleCognitiveComplete at fetchAssessmentResult (part_004 338); the
\* service answers with raw
FetchIssued(raw) ==
  /\ user # None /\ cog.pc # "fetch"
  /\ cog' = [pc |-> "fetch", uid |-> user, raw |-> raw]
  /\ isLoading' = TRUE /\ isResultPending' = TRUE
  /\ UNCHANGED <<user, assessmentId, activeStepIndex, isSpeechUploading, result,
                 history, storage, pipeVars, cogc, onb, servVars>>

\* the fetch resolved (api.ts 221-256, part_004 345-350, 357, 365-367);
\* localStorage.setItem may throw, which saveAssessmentResult ignores
\* (part_003 11-15)
FetchResolved ==
  /\ cog.pc = "fetch"
  /\ cog' = [cog EXCEPT !.pc = "done"]
  /\ result' = fetchAssessmentResult(cog.raw)
  /\ \E stored \in BOOLEAN :
       storage' = IF stored
                  THEN [storage EXCEPT ![cog.uid] = saveAssessmentResult(@, result')]
                  ELSE storage
  /\ history' = loadAssessmentHistory(storage', cog.uid)
  /\ isResultPending' = FALSE /\ isLoading' = FALSE
  /\ UNCHANGED <<user, assessmentId, activeStepIndex, isSpeechUploading,
                 pipeVars, cogc, onb, servVars>>

\* the results phase with nothing stored
InitResults ==
  /\ assessmentId = None /\ activeStepIndex = StepResults
  /\ isSpeechUploading = FALSE /\ result = None
  /\ history = <<>> /\ storage = [u \in HistoryUsers |-> <<>>]
  /\ speech = NotMountedSpeech /\ rec = NoRecorder /\ hs = <<>> /\ completions = 0
  /\ cogc = NotMountedCog /\ onb = NoOnboarding
  /\ uploaded = {} /\ nextAid = 1

InitFetch ==
  /\ InitResults /\ isLoading = TRUE /\ isResultPending = TRUE
  /\ \E u \in HistoryUsers, raw \in Responses :
       user = u /\ cog = [pc |-> "fetch", uid |-> u, raw |-> raw]

NextFetch == FetchResolved

SpecFetch == InitFetch /\ [][NextFetch]_vars

InitHistory ==
  /\ InitResults /\ isLoading = FALSE /\ isResultPending = FALSE
  /\ user = None /\ cog = NoFetch

NextHistory ==
  \/ \E u \in HistoryUsers : SignIn(u)
  \/ \E raw \in HistoryResponses : FetchIssued(raw)
  \/ FetchResolved

SpecHistory == InitHistory /\ [][NextHistory]_vars

\* ------------------------------------------------------------ SpecCatalog
\* The makers of the sequence tasks (part_004 68-99) on scaled inputs: the
\* digits 0..MaxDigit, the first MaxWords words of the English lexicon, up to
\* MaxTargets pairwise different items to remember (the pools and digit lists
\* of generateCognitiveTasks hold no item twice) and MaxSample sampled
\* distractor digits.  A shuffle returns any permutation of its argument.
DigitString == <<"0", "1", "2", "3", "4", "5", "6", "7", "8", "9">>

\* String(d) for a digit
String(d) == DigitString[d + 1]

\* WORDS_BY_LANG.en (part_004 102)
Lexicon ==
  <<"Apple", "Train", "Moon", "Garden", "Candle", "Bridge", "Star", "Window", "River",
    "Mirror", "Bottle">>

Words == {Lexicon[i] : i \in 1..MaxWords}

Digits == 0..MaxDigit

AllDigits == [i \in 1..(MaxDigit + 1) |-> i - 1]

\* sequences of 1..MaxTargets pairwise different items of S
TargetSeqs(S) ==
  UNION {{q \in [1..n -> S] : \A i, j \in 1..n : q[i] = q[j] => i = j} : n \in 1..MaxTargets}

Perms(n) == {p \in [1..n -> 1..n] : \A i, j \in 1..n : p[i] = p[j] => i = j}

\* one outcome of shuffle(arr) (part_004 68-70): the permutation p of arr
shuffle(arr, p) == [i \in 1..Len(arr) |-> arr[p[i]]]

\* arr.slice(0, n)
Slice(arr, n) == SubSeq(arr, 1, Min(n, Len(arr)))

\* faulty variant: 1-based positions
IndexOf_Mut(arr, x) ==
  IF \E i \in 1..Len(arr) : arr[i] = x
  THEN CHOOSE i \in 1..Len(arr) : arr[i] = x /\ \A j \in 1..(i - 1) : arr[j] # x
  ELSE -1

\* arr.indexOf(x): the 0-based position of the first x, -1 when there is none
IndexOf(arr, x) ==
  IF \E i \in 1..Len(arr) : arr[i] = x
  THEN (CHOOSE i \in 1..Len(arr) : arr[i] = x /\ \A j \in 1..(i - 1) : arr[j] # x) - 1
  ELSE -1

\* faulty variant: the concatenation is kept as it is
Dedup_Mut(arr) == arr

\* Array.from(new Set(arr)): the first occurrence of each value, in order
Dedup(arr) ==
  LET keep == {i \in 1..Len(arr) : \A j \in 1..(i - 1) : arr[j] # arr[i]}
      Rank(i) == Cardinality({j \in keep : j <= i})
  IN [k \in 1..Cardinality(keep) |-> arr[CHOOSE i \in keep : Rank(i) = k]]

\* the outcomes of shuffle([0..9]).slice(0, 5) (part_004 87), scaled
SampleOutcomes == {Slice(shuffle(AllDigits, q), MaxSample) : q \in Perms(MaxDigit + 1)}

\* makeWordRecallTask (part_004 72-84); p is the outcome of the shuffle
makeWordRecallTask(words, p) ==
  LET options == shuffle(words, p)
  IN [type |-> "word-recall", prompt |-> words, options |-> options,
      sequenceAnswer |-> [i \in 1..Len(words) |-> IndexOf(options, words[i])]]

\* the array handed to the outer shuffle of makeDigitSpanTask (part_004 87)
DigitPool(digits, sample) == Dedup(digits \o sample)

\* makeDigitSpanTask (part_004 86-99); sample is the outcome of the inner
\* shuffle and slice, p that of the outer shuffle
makeDigitSpanTask(digits, sample, p) ==
  LET pool == shuffle(DigitPool(digits, sample), p)
      options == [i \in 1..Len(pool) |-> String(pool[i])]
  IN [type |-> "digit-span", prompt |-> digits, options |-> options,
      sequenceAnswer |-> [i \in 1..Len(digits) |-> IndexOf(options, String(digits[i]))]]

\* the task list before generateCognitiveTasks ran
NoCatalog == [mounted |-> FALSE, currentIndex |-> 0, isFinished |-> FALSE, tasks |-> <<>>]

GenerateWordRecall ==
  /\ cogc.tasks = <<>>
  /\ \E words \in TargetSeqs(Words) : \E p \in Perms(Len(words)) :
       cogc' = [cogc EXCEPT !.tasks = <<makeWordRecallTask(words, p)>>]
  /\ UNCHANGED cogFrame

GenerateDigitSpan ==
  /\ cogc.tasks = <<>>
  /\ \E digits \in TargetSeqs(Digits), sample \in SampleOutcomes :
       \E p \in Perms(Len(DigitPool(digits, sample))) :
         cogc' = [cogc EXCEPT !.tasks = <<makeDigitSpanTask(digits, sample, p)>>]
  /\ UNCHANGED cogFrame

InitCatalog == InitAssessment /\ speech = NotMountedSpeech /\ cogc = NoCatalog

NextCatalog ==
  \/ GenerateWordRecall
  \/ GenerateDigitSpan

SpecCatalog == InitCatalog /\ [][NextCatalog]_vars

\* -------------------------------------------------------------- SpecGuard
\* The orchestrator's handlers invoked while the session has no user and no
\* assessment id: a harness renders SpeechRecorder with onUpload =
\* handleSpeechUpload and onComplete = handleSpeechComplete, and a finished
\* CognitiveTasks with onComplete = handleCognitiveComplete, without an
\* onboarding having taken place.  (The Assessment page itself renders the
\* two components only when the assessment id is set, part_004 422, 434.)
\* the guard of handleSpeechUpload and handleCognitiveComplete (part_004 260, 304)
SessionMissing(a, u) == a = None \/ u = None

\* handleSpeechUpload returned at its guard (part_004 260-266): the promise
\* that handleDataAvailable awaits is resolved, no request was made, and the
\* invocation goes on at SpeechRecorder.tsx 79; onComplete is
\* handleSpeechComplete (part_004 295-301)
SpeechGuardReturns(k) ==
  /\ hs[k].pc = "upload" /\ SessionMissing(hs[k].aid, hs[k].uid)
  /\ hs' = [hs EXCEPT ![k] = [AfterUploadHandler(@) EXCEPT !.toast = "Assessment not started"]]
  /\ speech' = AfterUploadSpeech(speech, hs[k])
  /\ activeStepIndex' = IF HasNextSpeechTask(hs[k].idx) THEN activeStepIndex
                        ELSE advanceStep(activeStepIndex)
  /\ UNCHANGED <<user, assessmentId, isLoading, isSpeechUploading, result,
                 isResultPending, history, storage, rec, completions, procVars, servVars>>

\* "Submit Cognitive Data": handleCognitiveComplete returns at its guard
\* (part_004 304-310) and handleFinish ends (CognitiveTasks.tsx 178-192)
CogGuardReturns ==
  /\ cogc.mounted /\ cogc.isFinished /\ ~isLoading
  /\ SessionMissing(assessmentId, user)
  /\ cog' = [NoCognitive EXCEPT !.pc = "done", !.toast = "Assessment not started",
                                !.trig = activeStepIndex]
  /\ UNCHANGED <<sessVars, pipeVars, cogc, onb, servVars>>

InitGuard ==
  /\ user = None /\ assessmentId = None /\ activeStepIndex = StepSpeech
  /\ isLoading = FALSE /\ isSpeechUploading = FALSE
  /\ result = None /\ isResultPending = FALSE
  /\ history = <<>> /\ storage = [u \in UserIds |-> <<>>]
  /\ speech = FreshSpeech /\ rec = NoRecorder /\ hs = <<>> /\ completions = 0
  /\ cogc = [FreshCog EXCEPT !.isFinished = TRUE]
  /\ onb = NoOnboarding /\ cog = NoCognitive
  /\ uploaded = {} /\ nextAid = 1

NextGuard ==
  \/ StartRecording
  \/ Tick
  \/ DataAvailable
  \/ StopRecording
  \/ MaxDurationElapsed
  \/ \E k \in 1..Len(hs) : SpeechGuardReturns(k)
  \/ CogGuardReturns

SpecGuard == InitGuard /\ [][NextGuard]_vars

\* ------------------------------------------------------------ model sanity
\* one handleOnboardingSubmit or handleCognitiveComplete at a time: a second
\* one cannot be started while one is running
SingleFlight ==
  /\ (onb.pc # "idle" \/ cog.pc \notin {"idle", "done"}) => isLoading
  /\ ~(onb.pc # "idle" /\ cog.pc \notin {"idle", "done"})

\* the closure of a recording always holds a user and an assessment
CapturedSession == \A k \in 1..Len(hs) : hs[k].aid # None /\ hs[k].uid # None

\* ================================================================ claims
\* what a trace says: the calls of onUpload and their outcomes
Calls(t) == Cardinality({j \in 1..Len(t) : t[j] = "call"})
Fails(t) == Cardinality({j \in 1..Len(t) : t[j] = "fail"})
Finished(h) == h.pc \in {"done", "failed"}
FailFailOk == <<"call", "fail", "delay", "call", "fail", "delay", "call", "ok">>
FailFailFail == <<"call", "fail", "delay", "call", "fail", "delay", "call", "fail", "delay">>

\* C1: polling issues at most 15 fetches; every fetch before the latest one
\* has failed (none is issued after a success), a successful fetch ends the
\* handler, and after 15 failed fetches the handler is over (no 16th fetch).
C1_PollingBounded ==
  /\ Len(cog.polls) <= PollAttempts
  /\ \A k \in 1..(Len(cog.polls) - 1) : cog.polls[k] = "fail"
  /\ \A k \in 1..Len(cog.polls) : cog.polls[k] = "ok" => cog.pc = "done"
  /\ (Len(cog.polls) = PollAttempts /\ cog.polls[PollAttempts] = "fail")
       => cog.pc \in {"sleep", "done"}

\* 15 fetches were issued, all failed, and polling is over
C1_Witness ==
  /\ cog.pc = "done" /\ Len(cog.polls) = PollAttempts
  /\ \A k \in 1..PollAttempts : cog.polls[k] = "fail"

\* C2 (as claimed): when the 15th fetch has failed and the loop is left, the
\* pending flag is still true.
C2_PendingKeptOnTimeout ==
  [][(cog.pc = "sleep" /\ cog'.pc = "done" /\ cog'.outcome = "timeout")
       => isResultPending']_vars

\* C3: when the first 14 fetches failed and the 15th succeeds, the step that
\* receives it makes the fetched result the session's result and clears the
\* pending flag.
C3_ResultOnLastAttempt ==
  [][(/\ cog.pc = "fetch" /\ Len(cog.polls) = PollAttempts
      /\ \A k \in 1..(PollAttempts - 1) : cog.polls[k] = "fail"
      /\ cog'.pc = "done" /\ cog'.outcome = "result")
       => (result' = cog.aid /\ result' # None /\ ~isResultPending')]_vars

C3_Witness ==
  /\ cog.pc = "done" /\ cog.outcome = "result"
  /\ Len(cog.polls) = PollAttempts /\ cog.polls[PollAttempts] = "ok"
  /\ result = cog.aid /\ ~isResultPending

\* C4 (SpecPipeline): an invocation whose upload function failed twice has
\* made a third call once it is over; when that third call succeeds the
\* invocation made exactly 3 calls with a delay after each failure and took
\* the advancement branch; an invocation advances only with a successful
\* last call, and the task pointer counts exactly those advancements.
C4_FailTwiceThenSucceed ==
  /\ \A k \in 1..Len(hs) :
       /\ (Finished(hs[k]) /\ Fails(hs[k].trace) >= 2) => Calls(hs[k].trace) = UploadAttempts
       /\ (Fails(hs[k].trace) = 2 /\ hs[k].pc = "done") =>
            (hs[k].trace = FailFailOk /\ hs[k].effect \in {"advanced", "completed"})
       /\ hs[k].effect \in {"advanced", "completed"} =>
            hs[k].trace[Len(hs[k].trace)] = "ok"
  /\ speech.mounted =>
       speech.currentIndex =
         Cardinality({k \in 1..Len(hs) : hs[k].effect = "advanced" /\ ~hs[k].orphan})

\* one chunk: two failed calls, the third succeeded, the pointer moved to 1
C4_Witness ==
  /\ Len(hs) = 1 /\ hs[1].trace = FailFailOk /\ hs[1].effect = "advanced"
  /\ speech.mounted /\ speech.currentIndex = 1

\* C5 (SpecPipeline): the step in which an invocation gives up follows three
\* failed calls, leaves the task pointer, the elapsed counter and the chunk
\* buffer as they are, signals no completion and shows "Upload failed".
C5_AlwaysFails ==
  [][\A k \in 1..Len(hs) :
       (hs[k].pc = "sleep" /\ hs'[k].pc = "failed") =>
         /\ hs'[k].trace = FailFailFail
         /\ hs'[k].effect = "failed" /\ hs'[k].toast = "Upload failed"
         /\ speech' = speech /\ completions' = completions]_vars

\* one chunk whose three uploads failed: still at task 0, the chunk buffered
C5_Witness ==
  /\ Len(hs) = 1 /\ hs[1].pc = "failed" /\ hs[1].trace = FailFailFail
  /\ speech.mounted /\ speech.currentIndex = 0 /\ speech.chunks = 1
  /\ completions = 0

\* C6 (as claimed): the session leaves the speech phase only when the service
\* has accepted a sample of every speech task of the current assessment, and
\* an invocation whose request was rejected neither advances nor completes.
C6_PhaseNeedsAllUploads ==
  [][/\ (activeStepIndex = StepSpeech /\ activeStepIndex' # StepSpeech)
          => \A t \in SpeechTaskIdx : <<assessmentId, t>> \in uploaded'
     /\ \A k \in 1..Len(hs) :
          hs'[k].req = "rejected" => hs'[k].effect \notin {"advanced", "completed"}]_vars

\* C7 (as claimed): while a recording is in progress no upload is started and
\* the task pointer does not move.
C7_UploadAfterRecording ==
  [][(rec.state = "recording" /\ rec'.state = "recording")
       => (Len(hs') = Len(hs) /\ speech'.currentIndex = speech.currentIndex)]_vars

\* C8 (as claimed): after a failed registration, start of assessment, speech
\* upload, cognitive submission or prediction request the phase pointer is
\* the one of the moment the operation was triggered.
C8_FailureKeepsPhase ==
  [][/\ (RegisterFails \/ StartFails) => activeStepIndex' = onb.trig
     /\ CogRequestFails => activeStepIndex' = cog.trig
     /\ \A k \in 1..Len(hs) : SpeechRequestFails(k) => activeStepIndex' = activeStepIndex]_vars

\* C9: every change of the phase pointer is an increment by one, not beyond
\* results, or it is the reset to onboarding made by resetAssessment.
C9_PhaseOrder ==
  [][activeStepIndex' # activeStepIndex =>
       \/ (activeStepIndex' = activeStepIndex + 1 /\ activeStepIndex' <= StepResults)
       \/ (activeStepIndex' = StepOnboarding /\ ResetAssessment)]_vars

\* a session that went through all four phases and was reset
C9_Witness ==
  /\ activeStepIndex = StepOnboarding /\ cog.pc = "done" /\ nextAid > 1
  /\ user = None

\* C10: a step that takes the phase pointer back to onboarding (only
\* resetAssessment does) leaves no assessment id, no result, no user and a
\* cleared pending flag.
C10_ResetClears ==
  [][(activeStepIndex # StepOnboarding /\ activeStepIndex' = StepOnboarding) =>
       /\ assessmentId' = None /\ result' = None /\ user' = None
       /\ isResultPending' = FALSE]_vars

\* reset while the poll of the previous assessment is still running
C10_Witness ==
  /\ activeStepIndex = StepOnboarding /\ cog.pc \in {"fetch", "sleep"}
  /\ assessmentId = None /\ result = None /\ user = None /\ ~isResultPending

\* C11 (as claimed): once the session has moved on from the assessment a
\* running handleCognitiveComplete was started for, no step of that handler
\* changes the result, the pending flag, the loading flag or the history.
C11_LateCompletionIgnored ==
  [][(cog.pc \notin {"idle", "done"} /\ cog.aid # assessmentId /\ cog' # cog)
       => /\ result' = result /\ isResultPending' = isResultPending
          /\ isLoading' = isLoading /\ history' = history]_vars

\* C12 (as claimed): the step in which onboarding fails leaves no assessment
\* id, the phase pointer at onboarding and no user record of the failed
\* attempt in the session.
C12_FailedOnboardingStoresNothing ==
  [][(RegisterFails \/ StartFails)
       => /\ assessmentId' = None /\ activeStepIndex' = StepOnboarding
          /\ (onb.uid # None => user' # onb.uid)]_vars

\* ---- the cognitive state machine (SpecCog)
TaskIds == 1..Len(cogc.tasks)
\* the step stops the timer of task id: the task is completed in it
Completes(id) == cogc.taskStates[id].startTime # None /\ cogc'.taskStates[id].startTime = None
IsLastTask(id) == id = Len(cogc.tasks)
NoDuplicates(q) == \A i, j \in 1..Len(q) : i # j => q[i] # q[j]
IsPrefix(p, q) == Len(p) <= Len(q) /\ \A i \in 1..Len(p) : p[i] = q[i]
\* q is e with the elements at two adjacent positions exchanged
AdjacentSwap(e, q) ==
  \E i \in 1..(Len(e) - 1) : q = [e EXCEPT ![i] = e[i + 1], ![i + 1] = e[i]]
\* positions below the longer length where the two differ, a missing one differing
Differing(e, q) ==
  {i \in 1..Max(Len(e), Len(q)) : i > Len(e) \/ i > Len(q) \/ e[i] # q[i]}
\* what the handlers may change in a task's record once it is completed
Recorded(st) ==
  <<st.startTime, st.responseTimeMs, st.correct, st.errors, st.selectedOption, st.sequence>>

\* C13: the step that completes an ordered-sequence task whose accumulated
\* selection is exactly the expected permutation records correct = true and
\* errors = 0.
C13_ExactSequenceCorrect ==
  [][\A id \in TaskIds :
       (/\ cogc.tasks[id].hasSequence /\ Completes(id)
        /\ cogc.taskStates[id].sequence = cogc.tasks[id].sequenceAnswer)
         => /\ cogc'.taskStates[id].correct = "true"
            /\ cogc'.taskStates[id].errors = 0]_vars

\* a sequence task of two or more targets was completed with the expected selection
C13_Witness ==
  \E id \in TaskIds :
    /\ cogc.tasks[id].hasSequence /\ Len(cogc.tasks[id].sequenceAnswer) >= 2
    /\ cogc.taskStates[id].completed /\ cogc.taskStates[id].startTime = None
    /\ cogc.taskStates[id].sequence = cogc.tasks[id].sequenceAnswer
    /\ cogc.taskStates[id].correct = "true" /\ cogc.taskStates[id].errors = 0

\* C14: the step that completes an ordered-sequence task whose selection is
\* the expected permutation with two adjacent positions exchanged records
\* errors >= 1 and correct = false.
C14_AdjacentSwapWrong ==
  [][\A id \in TaskIds :
       (/\ cogc.tasks[id].hasSequence /\ Completes(id)
        /\ AdjacentSwap(cogc.tasks[id].sequenceAnswer, cogc.taskStates[id].sequence))
         => /\ cogc'.taskStates[id].correct = "false"
            /\ cogc'.taskStates[id].errors >= 1]_vars

C14_Witness ==
  \E id \in TaskIds :
    /\ cogc.tasks[id].hasSequence
    /\ cogc.taskStates[id].completed /\ cogc.taskStates[id].startTime = None
    /\ AdjacentSwap(cogc.tasks[id].sequenceAnswer, cogc.taskStates[id].sequence)
    /\ cogc.taskStates[id].correct = "false" /\ cogc.taskStates[id].errors >= 1

\* C15: the step that completes an ordered-sequence task records as errors
\* the number of positions below the longer of the two lengths at which the
\* expected and the selected sequence differ (a missing position differs),
\* and correct = true exactly when that number is 0 and the lengths are
\* equal; a proper prefix of length k of n expected records n - k, false.
C15_MismatchCount ==
  [][\A id \in TaskIds :
       (cogc.tasks[id].hasSequence /\ Completes(id)) =>
         LET e == cogc.tasks[id].sequenceAnswer
             q == cogc.taskStates[id].sequence
             after == cogc'.taskStates[id]
         IN /\ after.errors = Cardinality(Differing(e, q))
            /\ after.correct = "true" <=> (Differing(e, q) = {} /\ Len(q) = Len(e))
            /\ after.correct \in {"true", "false"}
            /\ (IsPrefix(q, e) /\ Len(q) < Len(e)) =>
                 (after.errors = Len(e) - Len(q) /\ after.correct = "false")]_vars

\* a sequence task completed with a non-empty proper prefix of the expected one
C15_Witness ==
  \E id \in TaskIds :
    LET e == cogc.tasks[id].sequenceAnswer
        st == cogc.taskStates[id]
    IN /\ cogc.tasks[id].hasSequence /\ st.completed /\ st.startTime = None
       /\ IsPrefix(st.sequence, e) /\ Len(st.sequence) >= 1 /\ Len(st.sequence) < Len(e)
       /\ st.errors = Len(e) - Len(st.sequence) /\ st.correct = "false"

\* C16: the selection of an ordered-sequence task never holds an index twice
\* and is never longer than the expected permutation; selecting an index it
\* holds already, or any index once it has the expected length, leaves the
\* state as it is; and a selection never stops the timer nor moves the
\* pointer nor sets the finished flag (only Complete does).
C16_SelectionBounded ==
  /\ [](\A id \in TaskIds :
          cogc.tasks[id].hasSequence =>
            LET st == cogc.taskStates[id]
                e == cogc.tasks[id].sequenceAnswer
            IN /\ NoDuplicates(st.sequence) /\ Len(st.sequence) <= Len(e)
               /\ \A k \in OptionIdx, ms \in ElapsedMs :
                    ((\E i \in 1..Len(st.sequence) : st.sequence[i] = k)
                       \/ Len(st.sequence) >= Len(e))
                      => handleOptionSelect(cogc, id, k, ms) = cogc)
  /\ [][\A k \in OptionIdx :
          (SelectOption(k) /\ CurrentTask(cogc).hasSequence) =>
            /\ cogc'.currentIndex = cogc.currentIndex
            /\ cogc'.isFinished = cogc.isFinished
            /\ CurrentState(cogc').startTime = CurrentState(cogc).startTime]_vars

\* a running sequence task whose selection has the expected length, with an
\* option left that is not part of it
C16_Witness ==
  /\ CurrentTask(cogc).hasSequence /\ CurrentState(cogc).startTime # None
  /\ Len(CurrentState(cogc).sequence) = Len(CurrentTask(cogc).sequenceAnswer)
  /\ \E k \in OptionIdx : ~OptionDisabled(cogc, k)
  /\ ~cogc.isFinished

\* C17: selecting option k of a running single-choice task records k as the
\* selected option, records correct = (k is the designated option) or
\* unknown when none is designated, stops the timer and, in the same step,
\* advances the pointer or sets the finished flag.
C17_SingleChoiceCompletes ==
  [][\A k \in OptionIdx :
       (SelectOption(k) /\ ~CurrentTask(cogc).hasSequence) =>
         LET task == CurrentTask(cogc)
             id == CurrentId(cogc)
             after == cogc'.taskStates[id]
         IN /\ after.selectedOption = k
            /\ task.correctAnswer # Undefined =>
                 (after.correct = "true" <=> k = task.correctAnswer)
                   /\ after.correct \in {"true", "false"}
            /\ task.correctAnswer = Undefined => after.correct = "null"
            /\ after.startTime = None /\ after.completed
            /\ IF IsLastTask(id) THEN cogc'.isFinished /\ cogc'.currentIndex = cogc.currentIndex
               ELSE cogc'.currentIndex = cogc.currentIndex + 1]_vars

\* a single-choice task answered with its designated option, the pointer
\* having moved on to the next task
C17_Witness ==
  \E id \in TaskIds :
    /\ cogc.tasks[id].numOptions > 0 /\ ~cogc.tasks[id].hasSequence
    /\ cogc.tasks[id].correctAnswer # Undefined
    /\ cogc.taskStates[id].selectedOption = cogc.tasks[id].correctAnswer
    /\ cogc.taskStates[id].correct = "true" /\ cogc.taskStates[id].startTime = None
    /\ cogc.currentIndex = id

\* C18 (as claimed): once a task is completed, no step starts its timer again
\* or changes its recorded response time, correctness, error count or
\* selection.
C18_CompletedIsTerminal ==
  [][\A id \in TaskIds :
       (cogc.taskStates[id].completed /\ cogc.taskStates[id].startTime = None)
         => Recorded(cogc'.taskStates[id]) = Recorded(cogc.taskStates[id])]_vars

\* C19: Complete on a clock-drawing task records correct = true and leaves
\* the task completed with its start time cleared, whether or not its timer
\* was running; the task's response is recorded in that same step.
C19_NoInputForcedCorrect ==
  [][(CompleteClick /\ CurrentTask(cogc).type = "clock-drawing") =>
       LET after == cogc'.taskStates[CurrentId(cogc)]
       IN /\ after.correct = "true" /\ after.startTime = None /\ after.completed
          /\ CurrentState(cogc).startTime = None => after.responseTimeMs = 0]_vars

\* a clock-drawing task completed, correct, the pointer having moved on
C19_Witness ==
  \E id \in TaskIds :
    /\ cogc.tasks[id].type = "clock-drawing" /\ cogc.taskStates[id].completed
    /\ cogc.taskStates[id].correct = "true" /\ cogc.taskStates[id].startTime = None
    /\ cogc.currentIndex = id

\* C20: the pointer stays within the task list, the finished flag is set only
\* when every task has been completed, and the step that completes a task
\* advances the pointer by one without setting the flag when the task is not
\* the last, sets the flag and keeps the pointer when it is; no other step
\* moves the pointer or sets the flag.
C20_PointerAndFinished ==
  /\ [](/\ cogc.currentIndex \in 0..(Len(cogc.tasks) - 1)
        /\ cogc.isFinished => \A id \in TaskIds : cogc.taskStates[id].completed)
  /\ [][/\ \A id \in TaskIds :
             Completes(id) =>
               IF IsLastTask(id)
               THEN cogc'.isFinished /\ cogc'.currentIndex = cogc.currentIndex
               ELSE /\ cogc'.currentIndex = cogc.currentIndex + 1
                    /\ ~cogc'.isFinished
        /\ (cogc'.currentIndex # cogc.currentIndex \/ cogc'.isFinished # cogc.isFinished)
             => \E id \in TaskIds : id = CurrentId(cogc) /\ cogc'.taskStates[id].completed
                                      /\ cogc'.taskStates[id].startTime = None]_vars

\* every task of a list of two or more is completed and the flag is set
C20_Witness ==
  /\ Len(cogc.tasks) >= 2 /\ cogc.isFinished
  /\ cogc.currentIndex = Len(cogc.tasks) - 1
  /\ \A id \in TaskIds : cogc.taskStates[id].completed

\* C21: Undo on a sequence task with a non-empty selection removes the last
\* index of it and nothing else: start time, response time, correctness and
\* error count of the task, every other task's state, the pointer and the
\* finished flag stay as they are; the updater applied to a state with an
\* empty selection returns that state.
C21_UndoRemovesLast ==
  /\ [][UndoClick =>
          LET id == CurrentId(cogc)
              before == cogc.taskStates[id]
          IN /\ Len(before.sequence) > 0
             /\ cogc'.taskStates[id] =
                  [before EXCEPT !.sequence = SubSeq(@, 1, Len(@) - 1)]
             /\ \A other \in TaskIds \ {id} : cogc'.taskStates[other] = cogc.taskStates[other]
             /\ cogc'.currentIndex = cogc.currentIndex
             /\ cogc'.isFinished = cogc.isFinished]_vars
  /\ [](\A id \in TaskIds :
          cogc.taskStates[id].sequence = <<>> =>
            UndoSequence(cogc.taskStates[id]) = cogc.taskStates[id])

\* a running sequence task that was judged correct with the full expected
\* selection and has lost exactly the last index of it since
C21_Witness ==
  \E id \in TaskIds :
    LET e == cogc.tasks[id].sequenceAnswer
        st == cogc.taskStates[id]
    IN /\ cogc.tasks[id].hasSequence /\ Len(e) >= 2
       /\ st.startTime # None /\ st.correct = "true" /\ st.errors = 0
       /\ st.sequence = SubSeq(e, 1, Len(e) - 1)

\* ---- the scoring engine (SpecScoring) and the logs (SpecCog)
\* the adjusted score as the claims state it, in tenths
ClaimedAdjusted(st) == IF st.correct = "true" THEN Max(0, 10 - st.errors) ELSE 0

RECURSIVE SumAdjusted(_)
SumAdjusted(ids) ==
  IF ids = {} THEN 0
  ELSE LET id == CHOOSE x \in ids : TRUE
       IN ClaimedAdjusted(cogc.taskStates[id]) + SumAdjusted(ids \ {id})

OfTypes(types) == {id \in TaskIds : cogc.tasks[id].type \in types}

TotalScore(sc) == sc.memoryScore + sc.attentionScore + sc.languageScore + sc.executiveScore

\* C22: the adjusted score of every task outcome lies between 0 and 1 (10
\* tenths) and is 0 when the error count is 10 or more, whatever the
\* correctness; the total handed over for a list of one task is that score.
C22_AdjustedScoreRange ==
  /\ \A id \in TaskIds :
       /\ adjustedScore(cogc.taskStates[id]) \in 0..10
       /\ cogc.taskStates[id].errors >= 10 => adjustedScore(cogc.taskStates[id]) = 0
  /\ (cogc.payload.handed /\ Len(cogc.tasks) = 1) =>
       /\ TotalScore(cogc.payload.scores) \in 0..10
       /\ cogc.taskStates[1].errors >= 10 => TotalScore(cogc.payload.scores) = 0

\* a correct task with 10 or more errors was scored 0
C22_Witness ==
  /\ cogc.payload.handed /\ Len(cogc.tasks) = 1
  /\ cogc.taskStates[1].correct = "true" /\ cogc.taskStates[1].errors >= 10
  /\ TotalScore(cogc.payload.scores) = 0

\* C23: each domain total handed over is the sum of the adjusted scores of
\* the tasks of the kinds mapped to it (word-recall: memory; digit-span and
\* attention: attention; clock-drawing: executive; tapping: language), the
\* four totals add up to the sum over all tasks, and a list of one correct
\* word-recall task without errors gives memory 1 and 0 elsewhere.
C23_DomainAttribution ==
  cogc.payload.handed =>
    LET sc == cogc.payload.scores
    IN /\ sc.memoryScore = SumAdjusted(OfTypes({"word-recall"}))
       /\ sc.attentionScore = SumAdjusted(OfTypes({"digit-span", "attention"}))
       /\ sc.executiveScore = SumAdjusted(OfTypes({"clock-drawing"}))
       /\ sc.languageScore = SumAdjusted(OfTypes({"tapping"}))
       /\ TotalScore(sc) = SumAdjusted(TaskIds)
       /\ (/\ Len(cogc.tasks) = 1 /\ cogc.tasks[1].type = "word-recall"
           /\ cogc.taskStates[1].correct = "true" /\ cogc.taskStates[1].errors = 0)
            => sc = [memoryScore |-> 10, attentionScore |-> 0, languageScore |-> 0,
                     executiveScore |-> 0]

\* two tasks of different domains, each scored into its own domain only
C23_Witness ==
  /\ cogc.payload.handed /\ Len(cogc.tasks) = 2
  /\ cogc.tasks[1].type = "word-recall" /\ cogc.tasks[2].type = "digit-span"
  /\ cogc.payload.scores = [memoryScore |-> 10, attentionScore |-> 9, languageScore |-> 0,
                            executiveScore |-> 0]

\* the tasks of the component are those of the catalog
IsCatalogList == [i \in 1..Len(cogc.tasks) |-> cogc.tasks[i].type] = CatalogTypes

\* C24: the catalog's list holds no task of the kind mapped to the language
\* domain, and the language score handed over for it is 0 whatever the
\* outcomes of its tasks.
C24_LanguageScoreZero ==
  IsCatalogList =>
    /\ \A id \in TaskIds : cogc.tasks[id].type # "tapping"
    /\ cogc.payload.handed => cogc.payload.scores.languageScore = 0

\* the catalog's list scored with every task correct
C24_Witness ==
  /\ IsCatalogList /\ cogc.payload.handed
  /\ cogc.payload.scores = [memoryScore |-> 20, attentionScore |-> 40, languageScore |-> 0,
                            executiveScore |-> 10]

\* C25: the logs handed to onComplete hold one log per task, in the order of
\* the task list, each with the response time, correctness and error count
\* recorded for that task, and they are handed over only when the finished
\* flag is set, every task having been completed.
C25_LogsPerTask ==
  cogc.payload.handed =>
    /\ cogc.isFinished
    /\ \A id \in TaskIds : cogc.taskStates[id].completed
    /\ Len(cogc.payload.logs) = Len(cogc.tasks)
    /\ \A id \in TaskIds :
         /\ cogc.payload.logs[id].taskId = id
         /\ cogc.payload.logs[id].responseTimeMs = cogc.taskStates[id].responseTimeMs
         /\ cogc.payload.logs[id].correct = cogc.taskStates[id].correct
         /\ cogc.payload.logs[id].errors = cogc.taskStates[id].errors

\* the logs of two tasks with different recorded outcomes
C25_Witness ==
  /\ cogc.payload.handed /\ Len(cogc.payload.logs) = 2
  /\ cogc.payload.logs[1].correct # cogc.payload.logs[2].correct
  /\ cogc.payload.logs[1].responseTimeMs # cogc.payload.logs[2].responseTimeMs

\* C26: the requests of the results phase are issued in the order submit,
\* predict, fetch: the prediction request only when the submission resolved,
\* the first fetch only when the prediction request resolved; a rejected
\* submission or prediction request ends the handler with no fetch issued and
\* the result none.
C26_CallOrder ==
  /\ [](cog.outcome = "error" => cog.pc = "done" /\ cog.polls = <<>> /\ result = None)
  /\ [][/\ (cog'.pc = "submit" /\ cog.pc # "submit") => cog.pc \in {"idle", "done"}
        /\ (cog'.pc = "predict" /\ cog.pc # "predict") => cog.pc = "submit"
        /\ (cog'.pc = "fetch" /\ cog.pc # "fetch") => cog.pc \in {"predict", "sleep"}
        /\ (Len(cog'.polls) = 1 /\ Len(cog.polls) = 0) => cog.pc = "predict"
        /\ (cog.pc \in {"submit", "predict"} /\ cog'.pc \notin {"submit", "predict", "fetch"})
             => cog'.outcome = "error"
        /\ (cog.outcome = "error" /\ cog' # cog) => cog'.pc = "submit"]_vars

\* a rejected request left the results phase without a result and without a fetch
C26_Witness ==
  /\ cog.outcome = "error" /\ cog.polls = <<>> /\ result = None
  /\ activeStepIndex = StepResults /\ ~isLoading /\ ~isResultPending

\* ---- the history store (SpecHistory) and the risk label (SpecFetch)
NoDuplicateIds(arr) ==
  \A i, j \in 1..Len(arr) : arr[i].assessmentId = arr[j].assessmentId => i = j

HasId(arr, id) == \E k \in 1..Len(arr) : arr[k].assessmentId = id

\* the results saveAssessmentResult may be handed in SpecHistory
FetchedResults == {fetchAssessmentResult(raw) : raw \in HistoryResponses}

\* C27: a user's stored history never holds two entries with one assessment
\* id; a save keeps every stored entry in place and unchanged; saving a
\* result whose assessment id is present leaves the history as it is, so a
\* repeated save changes nothing; a save for one user leaves every other
\* user's history as it is.
C27_HistoryAppendOnly ==
  /\ [](\A u \in HistoryUsers :
          /\ NoDuplicateIds(storage[u])
          /\ \A r \in FetchedResults :
               /\ HasId(storage[u], r.assessmentId) => saveAssessmentResult(storage[u], r) = storage[u]
               /\ saveAssessmentResult(saveAssessmentResult(storage[u], r), r)
                    = saveAssessmentResult(storage[u], r))
  /\ [][\A u \in HistoryUsers :
          /\ IsPrefix(storage[u], storage'[u])
          /\ (FetchResolved /\ u # cog.uid) => storage'[u] = storage[u]
          /\ (FetchResolved /\ HasId(storage[cog.uid], result'.assessmentId))
               => storage' = storage]_vars

\* a result was fetched whose assessment id was stored with another label:
\* the stored entry is the old one, and the other user has a history too
C27_Witness ==
  /\ cog.pc = "done" /\ Len(storage[cog.uid]) = 2
  /\ result.assessmentId = storage[cog.uid][1].assessmentId
  /\ result.riskLevel # storage[cog.uid][1].riskLevel
  /\ \E u \in HistoryUsers : u # cog.uid /\ Len(storage[u]) > 0

\* the label the response carries
ServerLabel == Coalesce(cog.raw.riskLevel, cog.raw.risk_level, NoLabel)

\* C30: for a server label among Low, Moderate, Medium and High the risk
\* level of the returned result is Medium for Moderate and the label itself
\* otherwise, hence one of Low, Medium, High; mapping a label twice gives
\* what mapping it once gives.
C30_RiskLabelNormalised ==
  /\ (cog.pc = "done" /\ ServerLabel \in ServerLabels) =>
       /\ result.riskLevel = (IF ServerLabel = "Moderate" THEN "Medium" ELSE ServerLabel)
       /\ result.riskLevel \in RiskLevels
  /\ \A l \in ServerLabels : normalizeRisk(normalizeRisk(l)) = normalizeRisk(l)

\* a response labelled Moderate under the snake_case key came back as Medium
C30_Witness ==
  /\ cog.pc = "done"
  /\ cog.raw.riskLevel = NoLabel /\ cog.raw.risk_level = "Moderate"
  /\ result.riskLevel = "Medium"

\* ---- the generated sequence tasks (SpecCatalog)
\* the option that stands for the i-th item to remember
TargetOption(t, i) == IF t.type = "digit-span" THEN String(t.prompt[i]) ELSE t.prompt[i]

Occurrences(arr, x) == Cardinality({k \in 1..Len(arr) : arr[k] = x})

\* C28: in every generated word-recall and digit-span task the expected
\* sequence has one index per item to remember, each a valid index of the
\* option list at which the option is that item, and no index twice.
C28_ExpectedIndices ==
  \A n \in 1..Len(cogc.tasks) :
    LET t == cogc.tasks[n]
    IN /\ Len(t.sequenceAnswer) = Len(t.prompt)
       /\ \A i \in 1..Len(t.prompt) :
            /\ t.sequenceAnswer[i] \in 0..(Len(t.options) - 1)
            /\ t.options[t.sequenceAnswer[i] + 1] = TargetOption(t, i)
       /\ NoDuplicates(t.sequenceAnswer)

\* a word-recall task whose options came out in the reverse order
C28_Witness ==
  /\ Len(cogc.tasks) = 1 /\ cogc.tasks[1].type = "word-recall"
  /\ Len(cogc.tasks[1].prompt) = 2 /\ cogc.tasks[1].sequenceAnswer = <<1, 0>>

\* C29: the options of every generated digit-span task hold each digit to
\* remember once and no value twice, and there are at least as many options
\* as digits to remember and at most MaxSample more.
C29_DigitOptionsDistinct ==
  \A n \in 1..Len(cogc.tasks) :
    LET t == cogc.tasks[n]
    IN t.type = "digit-span" =>
         /\ \A i \in 1..Len(t.prompt) : Occurrences(t.options, String(t.prompt[i])) = 1
         /\ NoDuplicates(t.options)
         /\ Len(t.options) >= Len(t.prompt)
         /\ Len(t.options) <= Len(t.prompt) + MaxSample

\* a digit-span task whose sampled distractor was one of its two digits
C29_Witness ==
  /\ Len(cogc.tasks) = 1 /\ cogc.tasks[1].type = "digit-span"
  /\ Len(cogc.tasks[1].prompt) = 2 /\ Len(cogc.tasks[1].options) = 2

\* ---- the capture/upload pipeline: buffer, device, guards, tasks
\* C31 (as claimed): the chunk buffer of a mounted component goes from
\* non-empty to empty only in the step of a successful upload.
C31_BufferClearedOnlyByUpload ==
  [][(speech'.mounted /\ speech.chunks > 0 /\ speech'.chunks = 0)
       => \E k \in 1..Len(hs) : UploadResolves(k)]_vars

\* C32 (as claimed): a device stream is live only while its recorder is
\* recording, and no stream that was acquired is left without release.
C32_DeviceHeldOnlyWhileRecording ==
  /\ ~rec.stray
  /\ rec.stream = "live" => rec.state = "recording"

InFlight == {k \in 1..Len(hs) : hs[k].pc \in {"upload", "sleep"}}

\* C34 (as claimed): at most one upload is in flight at any moment, and an
\* invocation advances the task pointer only from the task its recording was
\* started for.
C34_OneTaskAtATime ==
  /\ [](Cardinality(InFlight) <= 1)
  /\ [][\A k \in 1..Len(hs) :
          (hs[k].effect = "none" /\ hs'[k].effect = "advanced" /\ speech'.mounted)
            => (speech.currentIndex = hs[k].idx /\ speech'.currentIndex = hs[k].idx + 1)]_vars

\* C35 (as claimed, its safety part): the speech task pointer stays within
\* 0..NumSpeechTasks - 1; a successful upload for a task before the last one
\* moves it by one and sets the elapsed counter to zero; completion is
\* signalled only by a successful upload with the pointer at the last task,
\* and at most once.
C35_PointerInRange ==
  /\ [](speech.mounted => speech.currentIndex \in 0..(NumSpeechTasks - 1))
  /\ [](completions <= 1)
  /\ [][/\ \A k \in 1..Len(hs) :
             (UploadResolves(k) /\ speech.mounted /\ ~hs[k].orphan /\ HasNextSpeechTask(hs[k].idx))
               => (speech'.currentIndex = speech.currentIndex + 1 /\ speech'.elapsedMs = 0)
        /\ completions' # completions
             => /\ speech.currentIndex = NumSpeechTasks - 1
                /\ \E k \in 1..Len(hs) : UploadResolves(k)]_vars

\* C36 (as claimed): the pending flag is set only in the results phase, and
\* a result is present only in the results phase and is the result of the
\* session's current assessment.
C36_PendingAndResultInResults ==
  /\ isResultPending => activeStepIndex = StepResults
  /\ result # None => (activeStepIndex = StepResults /\ result = assessmentId)

\* ---- the cognitive tasks: scores, single choice, inactive tasks
\* C37: in every reachable task state correct = true implies errors = 0, so
\* the adjusted score of every task is 0 or 1 (FullScore): 1 exactly for the
\* correct tasks; the scores handed over count the correct tasks.
C37_CorrectMeansNoErrors ==
  /\ \A id \in TaskIds :
       LET st == cogc.taskStates[id]
       IN /\ st.correct = "true" => st.errors = 0
          /\ adjustedScore(st) = IF st.correct = "true" THEN FullScore ELSE 0
  /\ cogc.payload.handed =>
       TotalScore(cogc.payload.scores)
         = FullScore * Cardinality({id \in TaskIds : cogc.taskStates[id].correct = "true"})

\* the scores were handed over for a list with a correct task and a
\* sequence task completed with errors
C37_Witness ==
  /\ cogc.payload.handed
  /\ \E id \in TaskIds : cogc.taskStates[id].correct = "true"
  /\ \E id \in TaskIds : cogc.taskStates[id].errors > 0 /\ cogc.taskStates[id].correct = "false"

\* C38: as claimed, every completed single-choice task with a designated
\* correct option has correctness true or false and a selected option.  The
\* Complete button of a begun single-choice task calls completeTask without
\* overrides, so the formula is violated.
C38_CompletedChoiceIsDecided ==
  \A id \in TaskIds :
    LET task == cogc.tasks[id]
        st == cogc.taskStates[id]
    IN (st.completed /\ ~task.hasSequence /\ task.numOptions > 0
          /\ task.correctAnswer # Undefined)
         => (st.correct \in {"true", "false"} /\ st.selectedOption # Undefined)

\* the task states, the pointer and the finished flag of c and d are the same
SameProgress(c, d) ==
  /\ d.taskStates = c.taskStates
  /\ d.currentIndex = c.currentIndex
  /\ d.isFinished = c.isFinished

\* the tasks whose timer is not running: never begun, or completed
TimerStopped == {id \in TaskIds : cogc.taskStates[id].startTime = None}

\* C39 (selection): handleOptionSelect on a task whose timer is not running
\* leaves the task states, the pointer and the finished flag as they are
OptionOnInactiveRejected ==
  cogc.mounted =>
    \A id \in TimerStopped, e \in ElapsedMs, k \in 0..(MaxOptions - 1) :
      SameProgress(cogc, handleOptionSelect(cogc, id, k, e))

\* C39 (completion): completeTask on a task whose timer is not running
\* leaves the task states, the pointer and the finished flag as they are
CompleteOnInactiveRejected ==
  cogc.mounted =>
    \A id \in TimerStopped, e \in ElapsedMs :
      SameProgress(cogc, completeTask(cogc, id, << >>, e))

\* C39 (the button): a click on Complete while the timer of the current task
\* is not running records no response and does not move the pointer
CompleteClickOnInactiveRejected ==
  (CompleteClick /\ CurrentState(cogc).startTime = None) => SameProgress(cogc, cogc')

====
